---- MODULE Spec2Model ----
(***************************************************************************)
(* Type-hierarchy sessions of                                              *)
(* src/vs/workbench/contrib/typeHierarchy/common/typeHierarchy.ts:         *)
(* TypeHierarchyModel (create / dispose / fork / provideSupertypes /       *)
(* provideSubtypes), the module-level map _models, and the three commands  *)
(* _executePrepareTypeHierarchy, _executeProvideSupertypes and             *)
(* _executeProvideSubtypes.                                                *)
(*                                                                         *)
(* Strings are sequences of characters (small naturals), so the id of a    *)
(* model, the concatenation of its roots' _sessionId, is computed as the   *)
(* code computes it.  Every await of the code is a step boundary; what     *)
(* runs between two awaits is one atomic step.  The tail of create (after  *)
(* the provider answered) touches only objects it has just allocated, so   *)
(* it is taken together with the continuation of the command awaiting it.  *)
(*                                                                         *)
(* Spec      the three commands with every kind of input and answer        *)
(* SpecEvict the three commands over runs long enough to fill the map      *)
(* SpecModel direct callers of TypeHierarchyModel on one provider session  *)
(***************************************************************************)
EXTENDS Integers, Sequences, FiniteSets

\* map.size > 10 in the eviction scan (typeHierarchy.ts:140)
Capacity == 10

\* ---- bounds of the model ----
\* provider sessions ever created, in the long runs that fill the map
MaxSessions == 12
\* provider sessions ever created, in the runs with every kind of input
FewSessions == 2
\* sessions whose id repeats the key of a live registry entry
MaxCollisions == 1
\* sessions with more than one root
MaxMultiRoot == 1
\* roots of one session, and item ids a caller may send
MaxRoots == 2
\* models direct callers of TypeHierarchyModel create or fork
MaxHeld == 3
\* dispose() calls a direct caller makes on one model
MaxDisposeCalls == 2

VARIABLES
  sessions,   \* provider sessions: [roots, disposed (calls of session.dispose())]
  refs,       \* RefCountedDisposable._counter of the handle wrapping sessions[i]
  models,     \* TypeHierarchyModel instances: [id, provider, roots, ref, released, ...]
  _models,    \* the Map<string, TypeHierarchyModel>: entries [key, value] in insertion order
  reqs,       \* per client, its request suspended at an await (NoReq: none)
  held,       \* models returned to direct callers of create()/fork()
  puts,       \* history: the values passed to _models.set, in call order
  obs         \* what the step just taken did at the interface (call, lookup, provider call, return)

vars == <<sessions, refs, models, _models, reqs, held, puts, obs>>

\* ------------------------------------------------------------------ values

NoSid == <<>>
NoItem == [_sessionId |-> NoSid, _itemId |-> 0]
NoProvider == "none"

\* TypeHierarchyItem (typeHierarchy.ts:23-33): the two identity fields; the
\* other fields of a value built by a provider are well-typed.
Item(sid, i) == [_sessionId |-> sid, _itemId |-> i]

\* An untrusted command argument: the runtime type of the object and of each
\* field isTypeHierarchyItemDto inspects, plus the identity fields.
Dto(o, n, k, u, r, sr, sid, i) ==
  [obj |-> o, name |-> n, kind |-> k, uri |-> u, range |-> r,
   selectionRange |-> sr, _sessionId |-> sid, _itemId |-> i]

GoodDto(sid, i) == Dto("object", "string", "number", "URI", "IRange", "IRange", sid, i)

NoDto == Dto("none", "none", "none", "none", "none", "none", NoSid, 0)

\* the result of a provider's expansion call
Array(items) == [kind |-> "array", items |-> items]
Undefined == [kind |-> "undefined", items |-> <<>>]
NonArray == [kind |-> "nonarray", items |-> <<>>]

NoObs ==
  [op |-> "none", call |-> NoDto, lookup |-> FALSE, provided |-> NoItem,
   settle |-> "none", result |-> Undefined,
   ret |-> "none", value |-> <<>>, model |-> 0,
   reported |-> FALSE, acquired |-> FALSE, released |-> FALSE,
   evicted |-> <<>>, cancelled |-> FALSE]

NoReq ==
  [op |-> "none", pc |-> "none", ref |-> FALSE, provider |-> NoProvider,
   item |-> NoItem, model |-> 0, cancelled |-> FALSE]

\* ------------------------------------------------------------------ heap
\* The objects the operations allocate and mutate, passed as one record.

Heap == [sessions |-> sessions, refs |-> refs, models |-> models]

\* p + c._sessionId over the roots, from '' (typeHierarchy.ts:61)
RECURSIVE reduceSessionIds(_)
reduceSessionIds(roots) ==
  IF roots = <<>> THEN <<>>
  ELSE reduceSessionIds(SubSeq(roots, 1, Len(roots) - 1)) \o roots[Len(roots)]._sessionId

\* RefCountedDisposable.acquire: count += 1
acquire(h, s) == [h EXCEPT !.refs[s] = @ + 1]

\* RefCountedDisposable.release: count -= 1; when it reaches zero the wrapped
\* session's dispose() is invoked
release(h, s) ==
  LET c == h.refs[s] - 1
  IN [h EXCEPT !.refs[s] = c,
               !.sessions[s].disposed = IF c = 0 THEN @ + 1 ELSE @]

\* new TypeHierarchyModel(id, provider, roots, ref) (typeHierarchy.ts:66-73);
\* released counts the calls of dispose() on the instance, and live records
\* whether the instance was made by create or forked from an undisposed model
newModel(h, id, provider, roots, s, live) ==
  [h EXCEPT !.models = Append(@, [id |-> id, provider |-> provider, roots |-> roots,
                                   ref |-> s, released |-> 0, parentLive |-> live])]

\* model.root (typeHierarchy.ts:72)
root(m) == m.roots[1]

\* TypeHierarchyModel.create after the provider answered with `roots`
\* (typeHierarchy.ts:58-61): a fresh handle with count 1 and a model on it.
createModel(h, provider, roots) ==
  LET s == Len(h.sessions) + 1
      h1 == [h EXCEPT !.sessions = Append(@, [roots |-> roots, disposed |-> 0]),
                      !.refs = Append(@, 1)]
  IN newModel(h1, reduceSessionIds(roots), provider, roots, s, TRUE)

\* dispose as it would be if it forgot to release the shared reference
disposeNoRelease(h, m) == [h EXCEPT !.models[m].released = @ + 1]

\* TypeHierarchyModel.dispose (typeHierarchy.ts:75-77)
dispose(h, m) == release([h EXCEPT !.models[m].released = @ + 1], h.models[m].ref)

\* fork as it would be if it passed that.ref on without acquire()
forkNoAcquire(h, m, item) ==
  newModel(h, h.models[m].id, h.models[m].provider, <<item>>, h.models[m].ref,
           h.models[m].released = 0)

\* TypeHierarchyModel.fork (typeHierarchy.ts:79-86)
fork(h, m, item) ==
  newModel(acquire(h, h.models[m].ref), h.models[m].id, h.models[m].provider,
           <<item>>, h.models[m].ref, h.models[m].released = 0)

\* ------------------------------------------------------------------ the Map

Range(seq) == {seq[i] : i \in DOMAIN seq}

Keys(map) == {map[i].key : i \in DOMAIN map}

Values(map) == {map[i].value : i \in DOMAIN map}

MapHas(map, k) == \E i \in DOMAIN map : map[i].key = k

\* Map.get: the value, 0 for undefined
MapGet(map, k) ==
  IF MapHas(map, k) THEN (CHOOSE e \in {map[i] : i \in DOMAIN map} : e.key = k).value ELSE 0

\* Map.set: a present key keeps its place and takes the new value; a new key
\* is appended
MapSet(map, k, v) ==
  IF MapHas(map, k)
  THEN [i \in DOMAIN map |-> IF map[i].key = k THEN [key |-> k, value |-> v] ELSE map[i]]
  ELSE Append(map, [key |-> k, value |-> v])

\* Map.delete
MapDelete(map, k) == SelectSeq(map, LAMBDA e : e.key # k)

\* the scan as it would be with the size test off by one
RECURSIVE forEachEvictOffByOne(_, _, _, _)
forEachEvictOffByOne(h, map, todo, evicted) ==
  IF todo = <<>> THEN [h |-> h, map |-> map, evicted |-> evicted]
  ELSE LET e == Head(todo)
       IN IF Len(map) > Capacity + 1
          THEN forEachEvictOffByOne(dispose(h, e.value), MapDelete(map, e.key), Tail(todo),
                                    Append(evicted, e.value))
          ELSE forEachEvictOffByOne(h, map, Tail(todo), evicted)

\* the scan as it would be if it deleted the entry without disposing the model
RECURSIVE forEachDeleteOnly(_, _, _, _)
forEachDeleteOnly(h, map, todo, evicted) ==
  IF todo = <<>> THEN [h |-> h, map |-> map, evicted |-> evicted]
  ELSE LET e == Head(todo)
       IN IF Len(map) > Capacity
          THEN forEachDeleteOnly(h, MapDelete(map, e.key), Tail(todo), Append(evicted, e.value))
          ELSE forEachDeleteOnly(h, map, Tail(todo), evicted)

\* the scan as it would be if it evicted as soon as the map is full
RECURSIVE forEachEvictAtCapacity(_, _, _, _)
forEachEvictAtCapacity(h, map, todo, evicted) ==
  IF todo = <<>> THEN [h |-> h, map |-> map, evicted |-> evicted]
  ELSE LET e == Head(todo)
       IN IF Len(map) >= Capacity
          THEN forEachEvictAtCapacity(dispose(h, e.value), MapDelete(map, e.key), Tail(todo),
                                      Append(evicted, e.value))
          ELSE forEachEvictAtCapacity(h, map, Tail(todo), evicted)

\* the scan as it would be if it disposed the model and left its entry in
\* the map (visiting the oldest entry only, so that it ends)
forEachDisposeOnly(h, map, todo, evicted) ==
  IF todo # <<>> /\ Len(map) > Capacity
  THEN [h |-> dispose(h, Head(todo).value), map |-> map,
        evicted |-> Append(evicted, Head(todo).value)]
  ELSE [h |-> h, map |-> map, evicted |-> evicted]

\* _models.forEach(...) (typeHierarchy.ts:139-144): visits the entries in
\* insertion order; an entry is disposed and deleted when the size of the map
\* at the time of the visit exceeds Capacity.  `todo` are the entries not yet
\* visited (the scan deletes only the entry it is visiting).
RECURSIVE forEachEvict(_, _, _, _)
forEachEvict(h, map, todo, evicted) ==
  IF todo = <<>> THEN [h |-> h, map |-> map, evicted |-> evicted]
  ELSE LET e == Head(todo)
       IN IF Len(map) > Capacity
          THEN forEachEvict(dispose(h, e.value), MapDelete(map, e.key), Tail(todo),
                            Append(evicted, e.value))
          ELSE forEachEvict(h, map, Tail(todo), evicted)

\* _models.set(model.id, model); _models.forEach(...) (typeHierarchy.ts:138-144)
register(h, map, m) ==
  LET map1 == MapSet(map, h.models[m].id, m)
  IN forEachEvict(h, map1, map1, <<>>)

\* ------------------------------------------------------------------ expansion

\* isNonEmptyArray(result) (typeHierarchy.ts:91, 103)
isNonEmptyArray(result) == result.kind = "array" /\ Len(result.items) > 0

\* provideSupertypes as it would be with the isNonEmptyArray test inverted
provideSupertypesDropResult(answer) ==
  IF answer.settle = "resolve"
  THEN [raised |-> FALSE, reported |-> FALSE,
        value |-> IF isNonEmptyArray(answer.result) THEN <<>> ELSE answer.result.items]
  ELSE [raised |-> FALSE, reported |-> TRUE, value |-> <<>>]

\* TypeHierarchyModel.provideSupertypes once the provider's call has settled
\* (typeHierarchy.ts:88-98); answer = [settle, result], settle one of
\* "resolve", "throw" (synchronously), "reject"
provideSupertypes(answer) ==
  IF answer.settle = "resolve"
  THEN [raised |-> FALSE, reported |-> FALSE,
        value |-> IF isNonEmptyArray(answer.result) THEN answer.result.items ELSE <<>>]
  ELSE [raised |-> FALSE, reported |-> TRUE, value |-> <<>>]

\* provideSubtypes as it would be without the try/catch
provideSubtypesNoCatch(answer) ==
  IF answer.settle = "resolve"
  THEN [raised |-> FALSE, reported |-> FALSE,
        value |-> IF isNonEmptyArray(answer.result) THEN answer.result.items ELSE <<>>]
  ELSE [raised |-> TRUE, reported |-> FALSE, value |-> <<>>]

\* TypeHierarchyModel.provideSubtypes (typeHierarchy.ts:100-110)
provideSubtypes(answer) ==
  IF answer.settle = "resolve"
  THEN [raised |-> FALSE, reported |-> FALSE,
        value |-> IF isNonEmptyArray(answer.result) THEN answer.result.items ELSE <<>>]
  ELSE [raised |-> FALSE, reported |-> TRUE, value |-> <<>>]

\* the shape check as it would be without the test of kind
isTypeHierarchyItemDtoNoKind(d) ==
  /\ d.obj = "object"
  /\ d.name = "string"
  /\ d.uri = "URI"
  /\ d.range = "IRange"
  /\ d.selectionRange = "IRange"

\* isTypeHierarchyItemDto (typeHierarchy.ts:152-160); reading a field of null
\* throws before the check can answer
isTypeHierarchyItemDto(d) ==
  /\ d.obj = "object"
  /\ d.name = "string"
  /\ d.kind = "number"
  /\ d.uri = "URI"
  /\ d.range = "IRange"
  /\ d.selectionRange = "IRange"

\* the head of the commands as it would be if a missing model were an error
findModelAssertFound(map, d) ==
  IF d.obj = "null" THEN [raised |-> "TypeError", lookup |-> FALSE, model |-> 0]
  ELSE IF ~isTypeHierarchyItemDto(d)
       THEN [raised |-> "Unexpected type", lookup |-> FALSE, model |-> 0]
       ELSE IF MapHas(map, d._sessionId)
            THEN [raised |-> "none", lookup |-> TRUE, model |-> MapGet(map, d._sessionId)]
            ELSE [raised |-> "Unexpected type", lookup |-> TRUE, model |-> 0]

\* The synchronous head of _executeProvideSupertypes / _executeProvideSubtypes
\* (typeHierarchy.ts:163-170, 176-183): the error raised, or whether the map
\* was read and the model found (0: undefined).
findModel(map, d) ==
  IF d.obj = "null" THEN [raised |-> "TypeError", lookup |-> FALSE, model |-> 0]
  ELSE IF ~isTypeHierarchyItemDto(d)
       THEN [raised |-> "Unexpected type", lookup |-> FALSE, model |-> 0]
       ELSE [raised |-> "none", lookup |-> TRUE, model |-> MapGet(map, d._sessionId)]

ItemOf(d) == Item(d._sessionId, d._itemId)

\* ------------------------------------------------------------------ inputs

\* the id a well-behaved provider gives its next session: never used before
FreshSid == <<Len(sessions) + 1>>

Collisions == Cardinality({s \in DOMAIN sessions : sessions[s].roots[1]._sessionId # <<s>>})

MultiRoots == Cardinality({s \in DOMAIN sessions : Len(sessions[s].roots) > 1})

\* ids a provider repeats: the keys of the oldest and of the newest entry
CollidingSids ==
  IF _models = <<>> \/ Collisions >= MaxCollisions THEN {}
  ELSE {_models[1].key, _models[Len(_models)].key}

RootCounts == IF MultiRoots < MaxMultiRoot THEN 1..MaxRoots ELSE {1}

\* the roots of the session a provider creates, while it creates sessions
SessionRoots(limit, counts) ==
  IF Len(sessions) >= limit THEN {}
  ELSE {[i \in 1..n |-> Item(sid, i)] : sid \in {FreshSid} \cup CollidingSids, n \in counts}

\* what provider.prepareTypeHierarchy settles with; roots = <<>>: no session
PrepareAnswers(limit, counts) ==
  {[settle |-> "resolve", roots |-> r] : r \in SessionRoots(limit, counts) \cup {<<>>}}
    \cup {[settle |-> "reject", roots |-> <<>>]}

\* the nodes a provider answers an expansion of `item` with
Children(item) == <<Item(item._sessionId, MaxRoots + 1)>>

ExpandAnswers(item) ==
  {[settle |-> "resolve", result |-> r] : r \in {Array(Children(item)), Array(<<>>), Undefined, NonArray}}
    \cup {[settle |-> "reject", result |-> Undefined]}

UnknownSid == <<0>>

\* session ids of the nodes a caller sends: of the root returned for the oldest
\* and for the newest entry, and one no prepare ever returned
ProbeSids ==
  {UnknownSid} \cup
  (IF _models = <<>> THEN {}
   ELSE {root(models[_models[1].value])._sessionId,
         root(models[_models[Len(_models)].value])._sessionId})

BadDtos(sid) ==
  {Dto("null", "none", "none", "none", "none", "none", sid, 1),
   Dto("string", "none", "none", "none", "none", "none", sid, 1),
   Dto("object", "number", "number", "URI", "IRange", "IRange", sid, 1),
   Dto("object", "string", "string", "URI", "IRange", "IRange", sid, 1),
   Dto("object", "string", "number", "string", "IRange", "IRange", sid, 1),
   Dto("object", "string", "number", "URI", "other", "IRange", sid, 1),
   Dto("object", "string", "number", "URI", "IRange", "other", sid, 1)}

ExpandDtos ==
  {GoodDto(sid, i) : sid \in ProbeSids, i \in 1..MaxRoots} \cup BadDtos(FreshSid)

\* the well-formed nodes alone
ProbeDtos == {GoodDto(sid, 1) : sid \in ProbeSids}

\* ------------------------------------------------------------------ state

Init ==
  /\ sessions = <<>>
  /\ refs = <<>>
  /\ models = <<>>
  /\ _models = <<>>
  /\ reqs = [prepare |-> NoReq, expand |-> NoReq, create |-> NoReq]
  /\ held = {}
  /\ puts = <<>>
  /\ obs = NoObs

SetHeap(h) ==
  /\ sessions' = h.sessions
  /\ refs' = h.refs
  /\ models' = h.models

SameHeap == UNCHANGED <<sessions, refs, models>>

\* ------------------------------------------------------------------ _executePrepareTypeHierarchy

\* create as it would be if it caught the provider's error like the expansions
createOutcomeSwallow(answer) ==
  IF answer.settle = "reject" \/ answer.roots = <<>> THEN "absent" ELSE "model"

\* how TypeHierarchyModel.create ends once the provider's prepare call has
\* settled (typeHierarchy.ts:57-61): it raises the provider's error, returns
\* undefined, or returns a model
createOutcome(answer) ==
  IF answer.settle = "reject" THEN "raise"
  ELSE IF answer.roots = <<>> THEN "absent" ELSE "model"

\* the finally block as it would be inside the try, after the return value
releaseOnReturn(ref, exit) == ref /\ exit # "raise"

\* finally { textModelReference?.dispose() } (typeHierarchy.ts:147-149):
\* whether a reference is released, given whether one is held and how the try
\* block was left
finallyDispose(ref, exit) == ref

\* TypeHierarchyModel.create up to its await (typeHierarchy.ts:53-57), called
\* with the reference `ref` held or not: no provider, or the request suspends
\* at provider.prepareTypeHierarchy.
CallCreate(ref, provider, acquired) ==
  IF provider = NoProvider
  THEN /\ reqs' = [reqs EXCEPT !.prepare = NoReq]
       /\ obs' = [NoObs EXCEPT !.op = "prepare", !.ret = "value", !.value = <<>>,
                               !.acquired = acquired,
                               !.released = finallyDispose(ref, "absent")]
  ELSE /\ reqs' = [reqs EXCEPT !.prepare = [NoReq EXCEPT !.op = "prepare", !.pc = "provider",
                                                         !.ref = ref, !.provider = provider]]
       /\ obs' = [NoObs EXCEPT !.op = "prepare", !.acquired = acquired]

\* typeHierarchy.ts:117-133: the argument checks, modelService.getModel, and
\* either the await of createModelReference or the call of create
PrepareStart(argsOk, hasBuffer, provider) ==
  /\ reqs.prepare = NoReq
  /\ SameHeap
  /\ UNCHANGED <<_models, held, puts>>
  /\ IF ~argsOk
     THEN /\ obs' = [NoObs EXCEPT !.op = "prepare", !.ret = "Unexpected type"]
          /\ UNCHANGED reqs
     ELSE IF hasBuffer
          THEN CallCreate(FALSE, provider, FALSE)
          ELSE /\ provider = NoProvider
               /\ reqs' = [reqs EXCEPT !.prepare = [NoReq EXCEPT !.op = "prepare", !.pc = "resolve"]]
               /\ obs' = [NoObs EXCEPT !.op = "prepare"]

\* typeHierarchy.ts:127-133: createModelReference settles; on success the
\* reference is kept for the finally block and create is called
ResolveRespond(ok, provider) ==
  /\ reqs.prepare.pc = "resolve"
  /\ SameHeap
  /\ UNCHANGED <<_models, held, puts>>
  /\ IF ok
     THEN CallCreate(TRUE, provider, TRUE)
     ELSE /\ provider = NoProvider
          /\ reqs' = [reqs EXCEPT !.prepare = NoReq]
          /\ obs' = [NoObs EXCEPT !.op = "prepare", !.ret = "error"]

\* typeHierarchy.ts:57-61 and 133-149: the provider's prepare call settles,
\* create returns, the model is registered, the scan evicts, the root is
\* returned and the finally block releases the reference
PrepareRespond(answer) ==
  LET r == reqs.prepare
      exit == createOutcome(answer)
  IN
  /\ r.pc = "provider"
  /\ reqs' = [reqs EXCEPT !.prepare = NoReq]
  /\ UNCHANGED held
  /\ IF exit = "raise"
     THEN /\ obs' = [NoObs EXCEPT !.op = "prepare", !.settle = answer.settle, !.ret = "error",
                                  !.released = finallyDispose(r.ref, exit)]
          /\ SameHeap
          /\ UNCHANGED <<_models, puts>>
     ELSE IF exit = "absent"
          THEN /\ obs' = [NoObs EXCEPT !.op = "prepare", !.settle = answer.settle, !.ret = "value",
                                       !.released = finallyDispose(r.ref, exit)]
               /\ SameHeap
               /\ UNCHANGED <<_models, puts>>
          ELSE /\ LET h1 == createModel(Heap, r.provider, answer.roots)
                      m == Len(h1.models)
                      reg == register(h1, _models, m)
                 IN /\ SetHeap(reg.h)
                    /\ _models' = reg.map
                    /\ puts' = Append(puts, m)
                    /\ obs' = [NoObs EXCEPT !.op = "prepare", !.settle = answer.settle,
                                            !.result = Array(answer.roots),
                                            !.ret = "value", !.value = <<root(h1.models[m])>>,
                                            !.model = m,
                                            !.released = finallyDispose(r.ref, exit),
                                            !.evicted = reg.evicted]

\* ------------------------------------------------------------------ _executeProvideSupertypes / _executeProvideSubtypes

\* typeHierarchy.ts:162-173 up to the provider's call, which either throws
\* synchronously or leaves the request suspended
ExpandStart(op, d, throws) ==
  LET f == findModel(_models, d) IN
  /\ reqs.expand = NoReq
  /\ SameHeap
  /\ UNCHANGED <<_models, held, puts>>
  /\ IF f.raised # "none"
     THEN /\ ~throws
          /\ obs' = [NoObs EXCEPT !.op = op, !.call = d, !.ret = f.raised]
          /\ UNCHANGED reqs
     ELSE IF f.model = 0
          THEN /\ ~throws
               /\ obs' = [NoObs EXCEPT !.op = op, !.call = d, !.lookup = TRUE, !.ret = "undefined"]
               /\ UNCHANGED reqs
          ELSE IF throws
               THEN LET out == IF op = "supertypes"
                               THEN provideSupertypes([settle |-> "throw", result |-> Undefined])
                               ELSE provideSubtypes([settle |-> "throw", result |-> Undefined])
                    IN /\ obs' = [NoObs EXCEPT !.op = op, !.call = d, !.lookup = TRUE,
                                               !.model = f.model,
                                               !.provided = ItemOf(d), !.settle = "throw",
                                               !.ret = IF out.raised THEN "error" ELSE "value",
                                               !.value = out.value, !.reported = out.reported]
                       /\ UNCHANGED reqs
               ELSE /\ obs' = [NoObs EXCEPT !.op = op, !.call = d, !.lookup = TRUE,
                                            !.model = f.model, !.provided = ItemOf(d)]
                    /\ reqs' = [reqs EXCEPT !.expand = [NoReq EXCEPT !.op = op, !.pc = "provider",
                                                                    !.model = f.model,
                                                                    !.item = ItemOf(d)]]

ExecuteProvideSupertypes(d, throws) == ExpandStart("supertypes", d, throws)

ExecuteProvideSubtypes(d, throws) == ExpandStart("subtypes", d, throws)

ExpandRespond(op, answer) ==
  LET r == reqs.expand
      out == IF op = "supertypes" THEN provideSupertypes(answer) ELSE provideSubtypes(answer)
  IN /\ r.op = op
     /\ r.pc = "provider"
     /\ reqs' = [reqs EXCEPT !.expand = NoReq]
     /\ SameHeap
     /\ UNCHANGED <<_models, held, puts>>
     /\ obs' = [NoObs EXCEPT !.op = op, !.model = r.model, !.settle = answer.settle,
                             !.result = answer.result,
                             !.ret = IF out.raised THEN "error" ELSE "value",
                             !.value = out.value, !.reported = out.reported]

SupertypesRespond(answer) == ExpandRespond("supertypes", answer)

SubtypesRespond(answer) == ExpandRespond("subtypes", answer)

\* ------------------------------------------------------------------ direct callers of TypeHierarchyModel

\* TypeHierarchyModel.create(model, position, token) up to its await
\* (typeHierarchy.ts:52-57)
CreateCall(provider) ==
  /\ reqs.create = NoReq
  /\ SameHeap
  /\ UNCHANGED <<_models, held, puts>>
  /\ IF provider = NoProvider
     THEN /\ obs' = [NoObs EXCEPT !.op = "create", !.ret = "undefined"]
          /\ UNCHANGED reqs
     ELSE /\ obs' = [NoObs EXCEPT !.op = "create"]
          /\ reqs' = [reqs EXCEPT !.create = [NoReq EXCEPT !.op = "create", !.pc = "provider",
                                                          !.provider = provider]]

\* the caller's cancellation token fires while create awaits the provider
Cancel ==
  /\ reqs.create.pc = "provider"
  /\ ~reqs.create.cancelled
  /\ reqs' = [reqs EXCEPT !.create.cancelled = TRUE]
  /\ obs' = [NoObs EXCEPT !.op = "cancel"]
  /\ SameHeap
  /\ UNCHANGED <<_models, held, puts>>

\* TypeHierarchyModel.create from its await on (typeHierarchy.ts:57-61): the
\* provider settles, having honoured the token or not
CreateRespond(answer) ==
  LET r == reqs.create IN
  /\ r.pc = "provider"
  /\ reqs' = [reqs EXCEPT !.create = NoReq]
  /\ UNCHANGED <<_models, puts>>
  /\ IF createOutcome(answer) = "raise"
     THEN /\ obs' = [NoObs EXCEPT !.op = "create", !.settle = answer.settle, !.ret = "error",
                                  !.cancelled = r.cancelled]
          /\ SameHeap
          /\ UNCHANGED held
     ELSE IF createOutcome(answer) = "absent"
          THEN /\ obs' = [NoObs EXCEPT !.op = "create", !.settle = answer.settle,
                                       !.ret = "undefined", !.cancelled = r.cancelled]
               /\ SameHeap
               /\ UNCHANGED held
          ELSE LET h1 == createModel(Heap, r.provider, answer.roots)
                   m == Len(h1.models)
               IN /\ SetHeap(h1)
                  /\ held' = held \cup {m}
                  /\ obs' = [NoObs EXCEPT !.op = "create", !.settle = "resolve",
                                          !.result = Array(answer.roots),
                                          !.ret = "model", !.model = m,
                                          !.cancelled = r.cancelled]

\* a caller forks a model it holds (typeHierarchy.ts:79-86)
Fork(m, item) ==
  /\ m \in held
  /\ Len(models) < MaxHeld
  /\ LET h1 == fork(Heap, m, item)
     IN /\ SetHeap(h1)
        /\ held' = held \cup {Len(h1.models)}
        /\ obs' = [NoObs EXCEPT !.op = "fork", !.provided = item, !.ret = "model",
                                !.model = Len(h1.models)]
  /\ UNCHANGED <<_models, reqs, puts>>

\* a caller disposes a model it holds (typeHierarchy.ts:75-77)
Dispose(m) ==
  /\ m \in held
  /\ models[m].released < MaxDisposeCalls
  /\ SetHeap(dispose(Heap, m))
  /\ obs' = [NoObs EXCEPT !.op = "dispose"]
  /\ UNCHANGED <<_models, reqs, held, puts>>

Providers == {"p1"}

\* Requests with every kind of input and answer, over a few sessions.
Next ==
  \/ \E argsOk \in BOOLEAN, hasBuffer \in BOOLEAN, p \in Providers \cup {NoProvider} :
       PrepareStart(argsOk, hasBuffer, p)
  \/ \E ok \in BOOLEAN, p \in Providers \cup {NoProvider} : ResolveRespond(ok, p)
  \/ \E a \in PrepareAnswers(FewSessions, RootCounts) : PrepareRespond(a)
  \/ \E d \in ExpandDtos, t \in BOOLEAN : ExecuteProvideSupertypes(d, t)
  \/ \E d \in ExpandDtos, t \in BOOLEAN : ExecuteProvideSubtypes(d, t)
  \/ \E a \in ExpandAnswers(reqs.expand.item) : SupertypesRespond(a)
  \/ \E a \in ExpandAnswers(reqs.expand.item) : SubtypesRespond(a)

Spec == Init /\ [][Next]_vars

\* Long runs that fill the map: documents with an open buffer and a provider,
\* well-formed nodes, providers that answer.
NextEvict ==
  \/ \E p \in Providers : PrepareStart(TRUE, TRUE, p)
  \/ \E a \in PrepareAnswers(MaxSessions, {1}) : PrepareRespond(a)
  \/ \E d \in ProbeDtos : ExecuteProvideSupertypes(d, FALSE)
  \/ \E d \in ProbeDtos : ExecuteProvideSubtypes(d, FALSE)
  \/ SupertypesRespond([settle |-> "resolve", result |-> Array(Children(reqs.expand.item))])
  \/ SubtypesRespond([settle |-> "resolve", result |-> Array(Children(reqs.expand.item))])

SpecEvict == Init /\ [][NextEvict]_vars

\* Direct callers of TypeHierarchyModel: create with a cancellable token, fork
\* and dispose, in any order and any number of times, on one provider session
\* and the models that share it.
NextModel ==
  \/ \E p \in Providers \cup {NoProvider} : CreateCall(p)
  \/ Cancel
  \/ \E a \in PrepareAnswers(1, RootCounts) : CreateRespond(a)
  \/ \E m \in held : \E item \in {root(models[m])} \cup Range(Children(root(models[m]))) : Fork(m, item)
  \/ \E m \in held : Dispose(m)

SpecModel == Init /\ [][NextModel]_vars

\* ------------------------------------------------------------------ properties

ExpandOps == {"supertypes", "subtypes"}

\* the put that inserted model m: its place in the history of _models.set calls
PutTime(m) == CHOOSE i \in DOMAIN puts : puts[i] = m

\* the node shape the commands require of their argument: an object with a
\* string name, a numeric kind, a URI and two ranges
ShapeOk(d) ==
  /\ d.obj = "object"
  /\ d.name = "string"
  /\ d.kind = "number"
  /\ d.uri = "URI"
  /\ d.range = "IRange"
  /\ d.selectionRange = "IRange"

\* C1: whenever a prepare request has returned (every state: the insertion and
\* the eviction scan are one step), the registry holds at most 10 entries.
C1_RegistryAtMostCapacity == Len(_models) <= Capacity

\* a prepare request has just evicted and left the registry full
C1_Witness ==
  /\ obs.op = "prepare"
  /\ obs.evicted # <<>>
  /\ Len(_models) = Capacity

\* C2: a step removes a key from the registry exactly when it calls dispose()
\* on the model stored under it, once; a model the registry still holds has
\* not been disposed, and no model is disposed twice.
C2_EvictedDisposedOnce ==
  [][(\A i \in DOMAIN _models :
        _models[i].key \notin Keys(_models')
          => models'[_models[i].value].released = models[_models[i].value].released + 1)
     /\ (\A m \in DOMAIN models :
           models'[m].released # models[m].released
             => (m \in Values(_models) /\ m \notin Values(_models')
                 /\ models[m].id \notin Keys(_models')))
     /\ (\A m \in DOMAIN models' :
           models'[m].released <= 1
           /\ (m \in Values(_models') => models'[m].released = 0))]_vars

\* the oldest entry has just been evicted, and its model disposed once
C2_Witness ==
  /\ obs.op = "prepare"
  /\ obs.evicted # <<>>
  /\ \A k \in DOMAIN obs.evicted :
       /\ models[obs.evicted[k]].released = 1
       /\ obs.evicted[k] \notin Values(_models)

\* the models sharing session s
Sharing(s) == {m \in DOMAIN models : models[m].ref = s}

\* every model of session s was forked from a live model and disposed at most once
Disciplined(s) ==
  \A m \in Sharing(s) : models[m].parentLive /\ models[m].released <= 1

\* C3: when a model and the forks made while their parent was live are each
\* disposed at most once, the session's dispose() has run exactly once if all
\* of them are disposed and not at all while one of them is undisposed: the
\* last dispose call, and only it, disposes the session.
C3_SessionDisposedByLastDispose ==
  \A s \in DOMAIN sessions :
    Disciplined(s) =>
      /\ (\A m \in Sharing(s) : models[m].released = 1) => sessions[s].disposed = 1
      /\ (\E m \in Sharing(s) : models[m].released = 0) => sessions[s].disposed = 0

\* a model and two forks, each disposed once, and the session disposed once
C3_Witness ==
  \E s \in DOMAIN sessions :
    /\ Disciplined(s)
    /\ Cardinality(Sharing(s)) >= 3
    /\ \A m \in Sharing(s) : models[m].released = 1
    /\ sessions[s].disposed = 1

\* C4: whatever fork() and dispose() calls are made on the models sharing a
\* session, the reference count is never negative and the session's dispose()
\* runs at most once.
C4_CountNeverNegativeDisposedAtMostOnce ==
  \A s \in DOMAIN sessions : refs[s] >= 0 /\ sessions[s].disposed <= 1

\* C5: an expansion whose provider call threw or rejected reports the error
\* and returns an empty sequence; no expansion that reached the provider
\* raises.
C5_ExpansionNeverRaises ==
  (obs.op \in ExpandOps /\ obs.settle # "none") =>
    /\ obs.ret = "value"
    /\ obs.settle \in {"throw", "reject"} => (obs.value = <<>> /\ obs.reported)

\* a provider has just rejected a subtypes call and the command returned []
C5_Witness ==
  /\ obs.op = "subtypes"
  /\ obs.settle = "reject"
  /\ obs.ret = "value"
  /\ obs.value = <<>>

\* C6: an expand request carrying the root a prepare request returned, whose
\* model is still in the registry, finds that model and calls the provider
\* with that node; and the command returns a provider's non-empty result.
C6_ExpandFindsPreparedModel ==
  /\ \A m \in Values(_models) :
       (obs.op \in ExpandOps /\ obs.call = GoodDto(root(models[m])._sessionId, root(models[m])._itemId))
         => (obs.lookup /\ obs.model = m /\ obs.provided = root(models[m]))
  /\ (obs.op \in ExpandOps /\ obs.settle = "resolve" /\ obs.result.kind = "array"
      /\ obs.result.items # <<>>)
       => (obs.ret = "value" /\ obs.value = obs.result.items)

\* C7: an expand request with a well-formed node whose _sessionId is no key of
\* the registry returns undefined, calls no provider, and changes neither the
\* registry nor any model, session or reference count.
C7_UnknownSessionUndefined ==
  [][(obs'.op \in ExpandOps /\ ShapeOk(obs'.call) /\ obs'.call._sessionId \notin Keys(_models))
       => /\ obs'.ret = "undefined"
          /\ obs'.provided = NoItem
          /\ obs'.settle = "none"
          /\ UNCHANGED <<_models, sessions, refs, models, reqs>>]_vars

\* a node of a session never prepared has just been answered with undefined,
\* while the registry holds entries
C7_Witness ==
  /\ obs.op = "supertypes"
  /\ obs.call = GoodDto(UnknownSid, 1)
  /\ obs.ret = "undefined"
  /\ _models # <<>>

\* C8: the models a prepare request evicts were put before every model that
\* stays, oldest put first, and the model the request inserted stays.
C8_EvictsOldestPut ==
  (obs.op = "prepare" /\ obs.evicted # <<>>) =>
    /\ \A k \in DOMAIN obs.evicted : \A v \in Values(_models) :
         PutTime(obs.evicted[k]) < PutTime(v)
    /\ \A j, k \in DOMAIN obs.evicted : j < k => PutTime(obs.evicted[j]) < PutTime(obs.evicted[k])
    /\ obs.model \in Values(_models)

\* C9: an expand request whose argument fails the shape check is rejected with
\* the type assertion's error (or, for null, the TypeError of reading its
\* fields) before the registry is read or a provider called, and changes
\* nothing.
C9_MalformedRejectedBeforeLookup ==
  [][(obs'.op \in ExpandOps /\ obs'.call # NoDto /\ ~ShapeOk(obs'.call))
       => /\ obs'.ret = IF obs'.call.obj = "null" THEN "TypeError" ELSE "Unexpected type"
          /\ ~obs'.lookup
          /\ obs'.provided = NoItem
          /\ UNCHANGED <<_models, sessions, refs, models, reqs>>]_vars

\* a node whose kind is a string has just been rejected by expand-down
C9_Witness ==
  /\ obs.op = "subtypes"
  /\ obs.call.obj = "object"
  /\ obs.call.kind = "string"
  /\ obs.ret = "Unexpected type"
  /\ ~obs.lookup

\* every undisposed session is held by a model a caller or the registry owns
Owned(s) == \E m \in Sharing(s) : m \in held \/ m \in Values(_models)

\* C10: a create whose token was cancelled before the provider answered
\* resolves to absent and makes no model, and no session is left undisposed
\* without an owner.
C10_CancelledCreateAbsent ==
  /\ (obs.op = "create" /\ obs.cancelled /\ obs.settle = "resolve")
       => (obs.ret = "undefined" /\ obs.model = 0)
  /\ \A s \in DOMAIN sessions : sessions[s].disposed = 0 => Owned(s)

\* C11: a temporary document reference is acquired only by a prepare request
\* that was waiting for createModelReference, which it does only when the
\* document had no open buffer; a request holding a reference keeps it while
\* it is pending and releases it in the step that ends it, however that step
\* ends (model registered, nothing created, provider error); and a step
\* releases a reference only if the request held one or has just acquired it,
\* so every acquired reference is released exactly once.
C11_ReferenceReleasedOnce ==
  [][/\ obs'.acquired => (obs'.op = "prepare" /\ reqs.prepare.pc = "resolve" /\ ~reqs.prepare.ref)
     /\ (reqs.prepare.ref /\ reqs'.prepare # reqs.prepare)
          => (reqs'.prepare = NoReq /\ obs'.op = "prepare" /\ obs'.released)
     /\ (obs'.acquired /\ reqs'.prepare = NoReq) => obs'.released
     /\ (obs'.acquired /\ reqs'.prepare # NoReq) => reqs'.prepare.ref
     /\ obs'.released => (obs'.op = "prepare" /\ reqs'.prepare = NoReq
                          /\ (reqs.prepare.ref \/ obs'.acquired))
     /\ (~obs'.acquired /\ ~reqs.prepare.ref) => ~reqs'.prepare.ref]_vars

\* a request that held a temporary reference has ended with the provider's
\* error, and the reference was released
C11_Witness ==
  /\ obs.op = "prepare"
  /\ obs.settle = "reject"
  /\ obs.ret = "error"
  /\ obs.released

\* C12: an expansion whose provider call resolved returns a value: the
\* provider's array unchanged when it is a non-empty array, and the empty
\* sequence otherwise (undefined, an empty array), which is also what a failed
\* provider call yields.
C12_EmptyOrUnchanged ==
  /\ (obs.op \in ExpandOps /\ obs.settle = "resolve")
       => /\ obs.ret = "value"
          /\ obs.value = IF obs.result.kind = "array" /\ obs.result.items # <<>>
                         THEN obs.result.items ELSE <<>>
  /\ (obs.op \in ExpandOps /\ obs.settle \in {"throw", "reject"})
       => (obs.ret = "value" /\ obs.value = <<>>)

\* a provider's undefined answer has just been returned as the empty sequence
C12_Witness ==
  /\ obs.op = "supertypes"
  /\ obs.settle = "resolve"
  /\ obs.result = Undefined
  /\ obs.ret = "value"
  /\ obs.value = <<>>

\* C13: a prepare request whose provider call threw or rejected fails with
\* that error, and the step changes neither the registry nor any model,
\* session or reference count: nothing is inserted, evicted or disposed.
C13_PrepareErrorPropagates ==
  [][(obs'.op = "prepare" /\ obs'.settle = "reject")
       => /\ obs'.ret = "error"
          /\ obs'.model = 0
          /\ obs'.evicted = <<>>
          /\ UNCHANGED <<_models, sessions, refs, models, puts>>]_vars

\* a provider's prepare call has just rejected while the registry holds an entry
C13_Witness ==
  /\ obs.op = "prepare"
  /\ obs.settle = "reject"
  /\ obs.ret = "error"
  /\ _models # <<>>

\* C14: a prepare request that registered a model returns all the roots of that
\* model, which are the roots the session exposes, in order; a prepare request
\* that made no model (no provider, no session) returns the empty sequence.
C14_ReturnsAllRoots ==
  /\ (obs.op = "prepare" /\ obs.model # 0)
       => /\ obs.ret = "value"
          /\ models[obs.model].roots = obs.result.items
          /\ obs.value = models[obs.model].roots
  /\ (obs.op = "prepare" /\ obs.model = 0 /\ obs.ret = "value") => obs.value = <<>>

\* C15: while an expansion call is pending at the provider, the session of the
\* model it was issued against has not been disposed.
C15_NoDisposeDuringExpansion ==
  reqs.expand.pc = "provider" => sessions[models[reqs.expand.model].ref].disposed = 0

\* C16: fork(item) makes one new model with the id, provider and shared
\* reference of a model the caller holds and with item as its only root; it
\* raises that session's reference count by exactly one and changes no other
\* count, no session, no existing model and not the registry, which does not
\* hold the fork.
C16_ForkFrame ==
  [][obs'.op = "fork"
       => /\ Len(models') = Len(models) + 1
          /\ obs'.model = Len(models')
          /\ \A k \in DOMAIN models : models'[k] = models[k]
          /\ \E m \in held :
               /\ models'[obs'.model].id = models[m].id
               /\ models'[obs'.model].provider = models[m].provider
               /\ models'[obs'.model].ref = models[m].ref
               /\ refs' = [refs EXCEPT ![models[m].ref] = @ + 1]
          /\ models'[obs'.model].roots = <<obs'.provided>>
          /\ models'[obs'.model].released = 0
          /\ sessions' = sessions
          /\ _models' = _models
          /\ obs'.model \notin Values(_models')]_vars

\* a model has just been forked at one of its children: the fork has that one
\* root and the session counts two references
C16_Witness ==
  /\ obs.op = "fork"
  /\ obs.provided \notin Range(models[1].roots)
  /\ models[obs.model].roots = <<obs.provided>>
  /\ models[obs.model].id = models[1].id
  /\ refs[models[obs.model].ref] = 2

\* the models sharing session s on which dispose() has not been called
Undisposed(s) == {m \in Sharing(s) : models[m].released = 0}

\* C17: when every model of a session was forked from an undisposed model and
\* disposed at most once, the session's reference count is the number of its
\* undisposed models, and the session is disposed exactly when that number is
\* zero.
C17_CountIsUndisposedModels ==
  \A s \in DOMAIN sessions :
    Disciplined(s) =>
      /\ refs[s] = Cardinality(Undisposed(s))
      /\ (sessions[s].disposed >= 1) <=> (Cardinality(Undisposed(s)) = 0)

\* three models share a session, one of them disposed, and the count is two
C17_Witness ==
  \E s \in DOMAIN sessions :
    /\ Disciplined(s)
    /\ Cardinality(Sharing(s)) = 3
    /\ Cardinality(Undisposed(s)) = 2
    /\ refs[s] = 2
    /\ sessions[s].disposed = 0

C19_RegistryModelsLive ==
  /\ \A m \in Values(_models) :
       /\ refs[models[m].ref] >= 1
       /\ sessions[models[m].ref].disposed = 0
       /\ models[m].released = 0
  /\ (obs.op \in ExpandOps /\ obs.provided # NoItem)
       => /\ obs.model \in Values(_models)
          /\ sessions[models[obs.model].ref].disposed = 0

\* an expand request has just found a model in a full registry from which
\* other models were evicted and disposed
C19_Witness ==
  /\ obs.op \in ExpandOps
  /\ obs.provided # NoItem
  /\ Len(_models) = Capacity
  /\ \E s \in DOMAIN sessions : sessions[s].disposed = 1

\* C20: a step of an expand request changes neither the registry nor any
\* model, session or count; a step that removes a key or disposes a model or
\* session is a prepare request registering a model under a key that makes
\* the registry larger than Capacity; a prepare request whose insertion leaves
\* at most Capacity keys removes and disposes nothing; one whose insertion
\* makes Capacity + 1 keys removes exactly one key and disposes its model.
C20_RemovedOnlyByEviction ==
  [][LET removed == Keys(_models) \ Keys(_models')
         disposed == {m \in DOMAIN models : models'[m].released # models[m].released}
         closed == {s \in DOMAIN sessions : sessions'[s] # sessions[s]}
         size == IF obs'.model = 0 THEN Len(_models)
                 ELSE Cardinality(Keys(_models) \cup {models'[obs'.model].id})
     IN /\ obs'.op \in ExpandOps => UNCHANGED <<_models, sessions, refs, models>>
        /\ (removed # {} \/ disposed # {} \/ closed # {})
             => (obs'.op = "prepare" /\ obs'.model # 0 /\ size > Capacity)
        /\ (obs'.op = "prepare" /\ size <= Capacity)
             => (removed = {} /\ disposed = {} /\ closed = {} /\ obs'.evicted = <<>>)
        /\ (obs'.op = "prepare" /\ obs'.model # 0 /\ size = Capacity + 1)
             => /\ Cardinality(removed) = 1
                /\ Len(obs'.evicted) = 1
                /\ disposed = {obs'.evicted[1]}
                /\ models[obs'.evicted[1]].id \in removed
                /\ Len(_models') = Capacity]_vars

\* the eleventh key has just been inserted and exactly one entry was removed
C20_Witness ==
  /\ obs.op = "prepare"
  /\ Len(obs.evicted) = 1
  /\ Len(_models) = Capacity
  /\ Cardinality(Keys(_models) \cup {models[obs.evicted[1]].id}) = Capacity + 1

====
